---- MODULE Spec2Model ----
(***************************************************************************)
(* Model of the uptime monitor's day-bucketed server (server/server.js,    *)
(* lines 1-130): the periodic probe (checkWebsite), the day store          *)
(* (currentDayKey, currentDayData, pastDays), the summary computation      *)
(* (computeSummaryForResults) and what is sent to the socket.io observers. *)
(*                                                                         *)
(* Node.js runs every callback to completion, so each action below is one  *)
(* callback: the timer callback up to the await of axios.get (Tick), the   *)
(* continuation of checkWebsite after the await (Resolve), and the         *)
(* 'connection' handler (Connection).  The wall clock is the environment   *)
(* (ClockAdvance).                                                         *)
(*                                                                         *)
(* JavaScript null / undefined is the empty sequence <<>> and a present    *)
(* value x is <<x>>, so that every field has one type.                     *)
(***************************************************************************)
EXTENDS Integers, Sequences, FiniteSets, Bags, TLC

\* ------------------------------------------------------------- bounds
\* checkWebsite calls started, the one at startup included.
MaxProbes == 2
\* Last instant of the wall clock.
MaxClock == 4
\* Clock instants per calendar day.
DayLen == 2
\* Longest log handed to computeSummaryForResults by SummarySpec.
MaxLen == 3
\* Most records the active day holds when FeedSpec starts.
MaxLog == 101

VARIABLES
  clock,          \* the wall clock (Date.now(), new Date())
  currentDayKey,  \* server.js:21
  currentDayData, \* server.js:22, [date, logs, summary]
  pastDays,       \* server.js:33, finished day objects, most recent first
  inflight,       \* the checkWebsite calls suspended at the await of
                  \* axios.get: the bag of their start instants
  started,        \* number of checkWebsite calls made so far
  emitted,        \* the io.emit calls of the callback that has just run
  sent,           \* the socket.emit calls of the callback that has just run
  completions,    \* history: one entry per finished checkWebsite, in order
  fnLog,          \* SummarySpec: the argument of computeSummaryForResults
  fnResult,       \* SummarySpec: <<>> or <<its result>>
  alive,          \* FaultSpec: the process has not been ended by a fault
  attached,       \* ObserverSpec: the observers whose socket is connected
  checkResults,   \* EquivSpec: server.js:154, the flat variant's array
  flatEmitted,    \* EquivSpec: the flat variant's io.emit calls, as emitted
  flatSent,       \* EquivSpec: the flat variant's socket.emit calls, as sent
  app,            \* ClientSpec: App.tsx:48-56, the state of the dashboard
  wire,           \* ClientSpec: the events on their way to the dashboard
  joined          \* ClientSpec: the dashboard's socket is connected

vars == <<clock, currentDayKey, currentDayData, pastDays, inflight, started,
          emitted, sent, completions, fnLog, fnResult, alive, attached,
          checkResults, flatEmitted, flatSent, app, wire, joined>>

storeVars == <<currentDayKey, currentDayData, pastDays>>

\* The flat variant of the server (server.js:132-227).
flatVars == <<checkResults, flatEmitted, flatSent>>

\* The dashboard (src/App.tsx) and its socket.
clientVars == <<app, wire, joined>>

\* What the callbacks of the day-bucketed server never touch.
aside == <<fnLog, fnResult, alive, attached, flatVars, clientVars>>

\* ------------------------------------------------------------ helpers
Null == <<>>

Some(x) == <<x>>

\* Array.prototype.filter with the predicate check => check.success, over
\* the elements from index i on.
filter(results, i) ==
  SelectSeq(SubSeq(results, i, Len(results)), LAMBDA check : check.success)

RECURSIVE sumRange(_, _, _)
\* checks[lo].responseTime + ... + checks[hi].responseTime, added up in
\* two halves so that a day's log of any length is evaluated with little
\* nesting; the sums are integers, so the grouping does not matter.
sumRange(checks, lo, hi) ==
  IF lo > hi THEN 0
  ELSE IF lo = hi THEN checks[lo].responseTime
  ELSE LET mid == (lo + hi) \div 2
       IN sumRange(checks, lo, mid) + sumRange(checks, mid + 1, hi)

\* Array.prototype.reduce with (sum, check) => sum + check.responseTime,
\* from index i on.
reduce(checks, i, sum) == sum + sumRange(checks, i, Len(checks))

\* Two decimal digits of k, 0 <= k < 100.
Digits2(k) == IF k < 10 THEN "0" \o ToString(k) ELSE ToString(k)

\* The decimal string of h hundredths: Decimal2(6667) = "66.67".
Decimal2(h) == ToString(h \div 100) \o "." \o Digits2(h % 100)

\* (num / den).toFixed(2) for num >= 0, den > 0: the nearest multiple of
\* 0.01, the larger one on a tie, as a decimal string.  (Number.toFixed
\* rounds the double num/den; the exact quotient and the double round alike
\* unless the quotient is within 1e-13 of a tie, which needs den to be a
\* multiple of 8.)
toFixed2(num, den) == Decimal2((200 * num + den) \div (2 * den))

\* Date.prototype.toDateString: the calendar day of instant t.
toDateString(t) == t \div DayLen

\* server.js:25-31 and 90-96: the summary literal of a fresh day object.
EmptySummary ==
  [totalChecks |-> 0, successful |-> 0, failed |-> 0,
   uptimePercentage |-> "N/A", averageResponseTime |-> "N/A"]

\* computeSummaryForResults with the percentage cut to 2 decimals instead of
\* rounded.
computeSummaryTruncating(results) ==
  LET totalChecks == Len(results)
      successfulChecks == filter(results, 1)
  IN [totalChecks |-> totalChecks,
      successful |-> Len(successfulChecks),
      failed |-> totalChecks - Len(successfulChecks),
      uptimePercentage |->
        IF totalChecks # 0
        THEN Decimal2((Len(successfulChecks) * 10000) \div totalChecks)
        ELSE "N/A",
      averageResponseTime |->
        IF Len(successfulChecks) > 0
        THEN toFixed2(reduce(successfulChecks, 1, 0), Len(successfulChecks))
        ELSE "N/A"]

\* computeSummaryForResults with the average taken over every record.
computeSummaryAveragingAll(results) ==
  LET totalChecks == Len(results)
      successfulChecks == filter(results, 1)
  IN [totalChecks |-> totalChecks,
      successful |-> Len(successfulChecks),
      failed |-> totalChecks - Len(successfulChecks),
      uptimePercentage |->
        IF totalChecks # 0
        THEN toFixed2(Len(successfulChecks) * 100, totalChecks)
        ELSE "N/A",
      averageResponseTime |->
        IF totalChecks > 0
        THEN toFixed2(reduce(results, 1, 0), totalChecks)
        ELSE "N/A"]

\* server.js:38-49
computeSummaryForResults(results) ==
  LET totalChecks == Len(results)
      successfulChecks == filter(results, 1)
      failedChecks == totalChecks - Len(successfulChecks)
      uptimePercentage ==
        IF totalChecks # 0
        THEN toFixed2(Len(successfulChecks) * 100, totalChecks)
        ELSE "N/A"
      averageResponseTime ==
        IF Len(successfulChecks) > 0
        THEN toFixed2(reduce(successfulChecks, 1, 0), Len(successfulChecks))
        ELSE "N/A"
  IN [totalChecks |-> totalChecks,
      successful |-> Len(successfulChecks),
      failed |-> failedChecks,
      uptimePercentage |-> uptimePercentage,
      averageResponseTime |-> averageResponseTime]

\* What axios.get can settle with (server.js:59, 68-75): a 2xx response; a
\* rejection carrying a response (a status outside 2xx); a rejection
\* without one (timeout, DNS failure, connection refused).
OkOutcome == [ok |-> TRUE, status |-> Some(200), message |-> Null]

StatusOutcome ==
  [ok |-> FALSE, status |-> Some(500),
   message |-> Some("Request failed with status code 500")]

TimeoutOutcome ==
  [ok |-> FALSE, status |-> Null,
   message |-> Some("timeout of 10000ms exceeded")]

\* Outcomes of a request that is never answered and has no timeout: none.
OutcomesUnanswered == {}

Outcomes == {OkOutcome, StatusOutcome, TimeoutOutcome}

\* MakeResult with line 72 as status: null.
MakeResultWithoutStatus(outcome, timestamp, duration) ==
  IF outcome.ok
  THEN [timestamp |-> timestamp, status |-> outcome.status,
        responseTime |-> duration, success |-> TRUE, error |-> Null]
  ELSE [timestamp |-> timestamp, status |-> Null,
        responseTime |-> duration, success |-> FALSE,
        error |-> outcome.message]

\* server.js:58-78: the result record of a settled request.
MakeResult(outcome, timestamp, duration) ==
  IF outcome.ok
  THEN [timestamp |-> timestamp, status |-> outcome.status,
        responseTime |-> duration, success |-> TRUE, error |-> Null]
  ELSE [timestamp |-> timestamp, status |-> outcome.status,
        responseTime |-> duration, success |-> FALSE,
        error |-> outcome.message]

\* server.js:22-32 and 87-97: a fresh day object.
NewDayData(now) == [date |-> now, logs |-> <<>>, summary |-> EmptySummary]

\* DayChanged comparing the instant itself with the day key.
DayChangedAlways(now, key) == now # key

\* server.js:82
DayChanged(now, key) == toDateString(now) # key

\* Unshift as a push: the finished day goes behind the older ones.
UnshiftAsPush(days, data) == Append(days, data)

\* Unshift as an assignment to pastDays[0]: the finished day replaces the
\* most recent one.
UnshiftOverwrite(days, data) ==
  IF days = <<>> THEN <<data>> ELSE <<data>> \o Tail(days)

\* Unshift left out: the finished day is not kept.
UnshiftDropping(days, data) == days

\* server.js:84: pastDays.unshift(currentDayData)
Unshift(days, data) == <<data>> \o days

\* RecordResult without line 103: the summary is left as it was.
RecordResultStale(data, result) ==
  [data EXCEPT !.logs = Append(@, result)]

\* RecordResult with unshift for push: the newest record goes first.
RecordResultFront(data, result) ==
  LET logs == <<result>> \o data.logs
  IN [data EXCEPT !.logs = logs, !.summary = computeSummaryForResults(logs)]

\* server.js:102-103: push the result, recompute the summary.
RecordResult(data, result) ==
  LET logs == Append(data.logs, result)
  IN [data EXCEPT !.logs = logs, !.summary = computeSummaryForResults(logs)]

\* server.js:98, 108 and 117: [currentDayData, ...pastDays]
DayList(data, days) == <<data>> \o days

Emit(event, payload) == [event |-> event, payload |-> payload]

\* RolloverEmits with line 98 sending pastDays alone.
RolloverEmitsArchiveOnly(data, days) == <<Emit("dailySummaryUpdate", days)>>

\* server.js:98: the broadcast made inside the rollover branch.
RolloverEmits(data, days) == <<Emit("dailySummaryUpdate", DayList(data, days))>>

\* CheckEmits with lines 106 and 107 exchanged.
CheckEmitsSwapped(result, data, days) ==
  << Emit("summaryUpdate", data.summary),
     Emit("newCheck", result),
     Emit("dailySummaryUpdate", DayList(data, days)) >>

\* server.js:106-108
CheckEmits(result, data, days) ==
  << Emit("newCheck", result),
     Emit("summaryUpdate", data.summary),
     Emit("dailySummaryUpdate", DayList(data, days)) >>

\* CurrentState with line 117 sending pastDays alone.
CurrentStateNoActive(data, days) ==
  [checkResults |-> data.logs, summary |-> data.summary,
   daySummaries |-> days]

\* server.js:114-118
CurrentState(data, days) ==
  [checkResults |-> data.logs, summary |-> data.summary,
   daySummaries |-> DayList(data, days)]

\* App.tsx:48-56: the state of App before any event.
InitialApp ==
  [checkResults |-> <<>>,
   summary |-> [totalChecks |-> 0, successful |-> 0, failed |-> 0,
                uptimePercentage |-> "0", averageResponseTime |-> "0"],
   dailySummaries |-> <<>>]

\* App.tsx:73: the second argument of slice.
SliceLimit == 100

\* Array.prototype.slice(0, end) for end >= 0.
slice(array, end) ==
  SubSeq(array, 1, IF end < Len(array) THEN end ELSE Len(array))

\* App.tsx:66-70
OnCurrentState(state, data) ==
  [checkResults |-> data.checkResults,
   summary |-> data.summary,
   dailySummaries |-> data.daySummaries]

\* App.tsx:72-74
OnNewCheck(state, result) ==
  [state EXCEPT !.checkResults = slice(<<result>> \o @, SliceLimit)]

\* OnSummaryUpdate with the handler of lines 76-78 not registered.
OnSummaryUpdateUnheard(state, newSummary) == state

\* App.tsx:76-78
OnSummaryUpdate(state, newSummary) == [state EXCEPT !.summary = newSummary]

\* App.tsx:80-82
OnDailySummaryUpdate(state, data) == [state EXCEPT !.dailySummaries = data]

\* App.tsx:66-82: the handler registered for the event's name runs.
Handle(state, e) ==
  CASE e.event = "currentState" -> OnCurrentState(state, e.payload)
    [] e.event = "newCheck" -> OnNewCheck(state, e.payload)
    [] e.event = "summaryUpdate" -> OnSummaryUpdate(state, e.payload)
    [] e.event = "dailySummaryUpdate" -> OnDailySummaryUpdate(state, e.payload)
    [] OTHER -> state

\* ------------------------------------------------------------ actions
\* The state once the module has been evaluated: the day store is empty,
\* dated to the start instant, the timer is armed (server.js:125) and the
\* first checkWebsite() (server.js:126) is suspended at its await.
Init ==
  /\ clock \in 0 .. (DayLen - 1)
  /\ currentDayKey = toDateString(clock)
  /\ currentDayData = NewDayData(clock)
  /\ pastDays = <<>>
  /\ inflight = SetToBag({clock})
  /\ started = 1
  /\ emitted = <<>>
  /\ sent = <<>>
  /\ completions = <<>>
  /\ fnLog = <<>>
  /\ fnResult = <<>>
  /\ alive = TRUE
  /\ attached = {}
  /\ checkResults = <<>>
  /\ flatEmitted = <<>>
  /\ flatSent = <<>>
  /\ app = InitialApp
  /\ wire = <<>>
  /\ joined = FALSE

\* The wall clock moves on; no callback runs.
ClockAdvanceCore ==
  /\ clock < MaxClock
  /\ clock' = clock + 1
  /\ emitted' = <<>>
  /\ sent' = <<>>
  /\ UNCHANGED <<storeVars, inflight, started, completions>>

ClockAdvance == ClockAdvanceCore /\ UNCHANGED aside

\* server.js:125 and 55-59: the interval timer calls checkWebsite, which
\* reads the clock and suspends at the await of axios.get.  Nothing in the
\* callback looks at the calls still suspended, and when a pending request
\* settles is decided by axios and the network, not by this code: the
\* timer fires whether or not an earlier request is still pending.
TickCore ==
  /\ started < MaxProbes
  /\ started' = started + 1
  /\ inflight' = inflight (+) SetToBag({clock})
  /\ emitted' = <<>>
  /\ sent' = <<>>
  /\ UNCHANGED <<clock, storeVars, completions>>

Tick == TickCore /\ UNCHANGED aside

\* server.js:59-109: the request of a call started at instant start settles
\* with outcome o and the rest of checkWebsite runs.  The duration and the
\* timestamp are read at the current instant; the clock may have moved on by
\* adv when line 81 reads it again.
ResolveCore(start, o, adv) ==
  LET duration == clock - start
      result == MakeResult(o, clock, duration)
      now == clock + adv
      rolled == DayChanged(now, currentDayKey)
      days == IF rolled THEN Unshift(pastDays, currentDayData) ELSE pastDays
      fresh == IF rolled THEN NewDayData(now) ELSE currentDayData
      data == RecordResult(fresh, result)
  IN /\ now <= MaxClock
     /\ clock' = now
     /\ inflight' = inflight (-) SetToBag({start})
     /\ pastDays' = days
     /\ currentDayKey' = IF rolled THEN toDateString(now) ELSE currentDayKey
     /\ currentDayData' = data
     /\ emitted' = (IF rolled THEN RolloverEmits(fresh, days) ELSE <<>>)
                     \o CheckEmits(result, data, days)
     /\ sent' = <<>>
     /\ completions' = Append(completions,
          [result |-> result, day |-> toDateString(now), rolled |-> rolled,
           outcome |-> o])
     /\ UNCHANGED started

Resolve ==
  \E start \in BagToSet(inflight), o \in Outcomes, adv \in 0 .. 1 :
    ResolveCore(start, o, adv) /\ UNCHANGED aside

\* ConnectionCore with io.emit for socket.emit on line 114: the current
\* state goes to every observer.
ConnectionBroadcast ==
  /\ emitted' = <<Emit("currentState", CurrentState(currentDayData, pastDays))>>
  /\ sent' = <<>>
  /\ UNCHANGED <<clock, storeVars, inflight, started, completions>>

\* server.js:112-119: an observer attaches and is sent the current state.
ConnectionCore ==
  /\ sent' = <<Emit("currentState", CurrentState(currentDayData, pastDays))>>
  /\ emitted' = <<>>
  /\ UNCHANGED <<clock, storeVars, inflight, started, completions>>

Connection == ConnectionCore /\ UNCHANGED aside

Next == ClockAdvance \/ Tick \/ Resolve \/ Connection

Spec == Init /\ [][Next]_vars

\* -------------------------------------------------------- observers
\* ObserverSpec is Spec with the observers told apart.  io.emit hands an
\* event to the socket of every attached observer and returns; socket.emit
\* hands it to one socket.  Whether and when a socket delivers is socket.io's
\* business: the server registers no 'disconnect' or 'error' handler
\* (server.js:112-119), so none of its code runs when an observer goes away
\* or a delivery fails.
Observers == {"a", "b"}

\* server.js:112-119: observer o connects.
Attach(o) ==
  /\ o \notin attached
  /\ attached' = attached \cup {o}
  /\ ConnectionCore
  /\ UNCHANGED <<fnLog, fnResult, alive, flatVars, clientVars>>

\* Observer o disconnects, or socket.io closes its socket after a failed
\* delivery.
Detach(o) ==
  /\ o \in attached
  /\ attached' = attached \ {o}
  /\ emitted' = <<>>
  /\ sent' = <<>>
  /\ UNCHANGED <<clock, storeVars, inflight, started, completions,
                 fnLog, fnResult, alive, flatVars, clientVars>>

AttachSome == \E o \in Observers : Attach(o)

DetachSome == \E o \in Observers : Detach(o)

ObserverNext == ClockAdvance \/ Tick \/ Resolve \/ AttachSome \/ DetachSome

ObserverSpec == Init /\ [][ObserverNext]_vars

\* The events a callback hands to observer o's socket, the observers in
\* before being attached when it starts and those in after when it ends:
\* its broadcasts if o is attached, and what it sends to the socket that
\* has connected if that is o's.
Received(o, before, after, broadcasts, replies) ==
  (IF o \in after THEN broadcasts ELSE <<>>)
    \o (IF o \in after \ before THEN replies ELSE <<>>)

\* ------------------------------------------------------- scheduling
\* LiveSpec is Spec with what the runtime guarantees: the interval timer
\* keeps firing (server.js:125), and every request settles, by an answer, an
\* error or the timeout of line 59, after which the continuation runs.
LiveSpec == Spec /\ WF_vars(Tick) /\ WF_vars(Resolve)

\* ------------------------------------------------- a fault in the tail
\* FaultSpec is Spec with one more way for checkWebsite to end: the call of
\* computeSummaryForResults on line 103 throws.  Lines 80-102 have run: the
\* rollover, if any, with its broadcast, and the push.  Lines 103-108 have
\* not: the summary is the old one and nothing else is broadcast.  No
\* try/catch encloses lines 80-108 and nothing handles the promise that
\* checkWebsite returns (lines 125-126), so the rejection is unhandled: the
\* runtime ends the process or only warns, depending on its version and
\* flags.
ResolveFaultCore(start, o, adv) ==
  LET duration == clock - start
      result == MakeResult(o, clock, duration)
      now == clock + adv
      rolled == DayChanged(now, currentDayKey)
      days == IF rolled THEN Unshift(pastDays, currentDayData) ELSE pastDays
      fresh == IF rolled THEN NewDayData(now) ELSE currentDayData
  IN /\ now <= MaxClock
     /\ clock' = now
     /\ inflight' = inflight (-) SetToBag({start})
     /\ pastDays' = days
     /\ currentDayKey' = IF rolled THEN toDateString(now) ELSE currentDayKey
     /\ currentDayData' = [fresh EXCEPT !.logs = Append(@, result)]
     /\ emitted' = (IF rolled THEN RolloverEmits(fresh, days) ELSE <<>>)
     /\ sent' = <<>>
     /\ UNCHANGED <<started, completions>>

ResolveFault ==
  /\ alive
  /\ \E start \in BagToSet(inflight), o \in Outcomes, adv \in 0 .. 1 :
       ResolveFaultCore(start, o, adv)
  /\ alive' \in BOOLEAN
  /\ UNCHANGED <<fnLog, fnResult, attached, flatVars, clientVars>>

\* The callbacks of Spec, which run while the process lives.
FaultClockAdvance == alive /\ ClockAdvance

FaultTick == alive /\ Tick

FaultResolve == alive /\ Resolve

FaultConnection == alive /\ Connection

FaultNext ==
  \/ FaultClockAdvance
  \/ FaultTick
  \/ FaultResolve
  \/ FaultConnection
  \/ ResolveFault

FaultSpec == Init /\ [][FaultNext]_vars

\* ---------------------------------------- computeSummaryForResults alone
\* SummarySpec hands computeSummaryForResults every log of at most MaxLen
\* records drawn from SampleResults and keeps what it returns.
SampleDurations == {100, 300}

SampleResults ==
  {MakeResult(o, 0, d) : o \in Outcomes, d \in SampleDurations}

SampleLogs == UNION {[1 .. n -> SampleResults] : n \in 0 .. MaxLen}

SummaryInit ==
  /\ clock = 0
  /\ currentDayKey = toDateString(0)
  /\ currentDayData = NewDayData(0)
  /\ pastDays = <<>>
  /\ inflight = EmptyBag
  /\ started = 0
  /\ emitted = <<>>
  /\ sent = <<>>
  /\ completions = <<>>
  /\ fnLog \in SampleLogs
  /\ fnResult = <<>>
  /\ alive = TRUE
  /\ attached = {}
  /\ checkResults = <<>>
  /\ flatEmitted = <<>>
  /\ flatSent = <<>>
  /\ app = InitialApp
  /\ wire = <<>>
  /\ joined = FALSE

Summarize ==
  /\ fnResult = <<>>
  /\ fnResult' = <<computeSummaryForResults(fnLog)>>
  /\ UNCHANGED <<clock, storeVars, inflight, started, emitted, sent,
                 completions, fnLog, alive, attached, flatVars, clientVars>>

SummaryNext == Summarize

SummarySpec == SummaryInit /\ [][SummaryNext]_vars

\* ------------------------------------------------- the flat variant
\* EquivSpec runs the second server of server.js (lines 132-227), which
\* keeps one list checkResults for all time, beside the day-bucketed one:
\* both see the same timer, the same clock and the same outcomes.

\* server.js:180-199: the result record of the flat variant.
FlatResult(outcome, timestamp, duration) ==
  IF outcome.ok
  THEN [timestamp |-> timestamp, status |-> outcome.status,
        responseTime |-> duration, success |-> TRUE, error |-> Null]
  ELSE [timestamp |-> timestamp,
        status |-> IF outcome.status # Null THEN outcome.status ELSE Null,
        responseTime |-> duration, success |-> FALSE,
        error |-> outcome.message]

\* computeSummary with the failed checks counted over successfulChecks.
computeSummaryFailedOfSuccessful(results) ==
  LET successfulChecks == filter(results, 1)
      summary == computeSummaryForResults(results)
  IN [summary EXCEPT !.failed = Len(successfulChecks) - summary.successful]

\* server.js:159-171, the list it reads passed as results.
computeSummary(results) ==
  LET totalChecks == Len(results)
      successfulChecks == filter(results, 1)
      failedChecks == totalChecks - Len(successfulChecks)
      uptimePercentage ==
        IF totalChecks # 0
        THEN toFixed2(Len(successfulChecks) * 100, totalChecks)
        ELSE "N/A"
      averageResponseTime ==
        IF Len(successfulChecks) > 0
        THEN toFixed2(reduce(successfulChecks, 1, 0), Len(successfulChecks))
        ELSE "N/A"
  IN [totalChecks |-> totalChecks,
      successful |-> Len(successfulChecks),
      failed |-> failedChecks,
      uptimePercentage |-> uptimePercentage,
      averageResponseTime |-> averageResponseTime]

\* server.js:214
FlatCurrentState(results) ==
  [checkResults |-> results, summary |-> computeSummary(results)]

\* No callback of the flat server runs.
FlatIdle ==
  /\ flatEmitted' = <<>>
  /\ flatSent' = <<>>
  /\ UNCHANGED checkResults

\* server.js:181-209: the rest of the flat checkWebsite once the request
\* of the call started at instant start has settled with outcome o.
FlatResolve(start, o) ==
  LET result == FlatResult(o, clock, clock - start)
      results == Append(checkResults, result)
  IN /\ checkResults' = results
     /\ flatEmitted' = << Emit("newCheck", result),
                          Emit("summaryUpdate", computeSummary(results)) >>
     /\ flatSent' = <<>>

\* server.js:212-215
FlatConnection ==
  /\ flatSent' = <<Emit("currentState", FlatCurrentState(checkResults))>>
  /\ flatEmitted' = <<>>
  /\ UNCHANGED checkResults

EquivClockAdvance ==
  ClockAdvanceCore /\ FlatIdle /\ UNCHANGED <<fnLog, fnResult, alive, attached, clientVars>>

EquivTick ==
  TickCore /\ FlatIdle /\ UNCHANGED <<fnLog, fnResult, alive, attached, clientVars>>

EquivResolve ==
  \E start \in BagToSet(inflight), o \in Outcomes, adv \in 0 .. 1 :
    /\ ResolveCore(start, o, adv)
    /\ FlatResolve(start, o)
    /\ UNCHANGED <<fnLog, fnResult, alive, attached, clientVars>>

EquivConnection ==
  /\ ConnectionCore
  /\ FlatConnection
  /\ UNCHANGED <<fnLog, fnResult, alive, attached, clientVars>>

EquivNext == EquivClockAdvance \/ EquivTick \/ EquivResolve \/ EquivConnection

EquivSpec == Init /\ [][EquivNext]_vars

\* ---------------------------------------------------- the dashboard
\* ClientSpec is Spec with one dashboard (src/App.tsx).  Its socket carries
\* the events addressed to it in the order the server handed them over;
\* each arrival runs the handler registered for it.  wire holds the events
\* handed over and not yet arrived.
serverAside == <<fnLog, fnResult, alive, attached, flatVars>>

ClientClockAdvance ==
  ClockAdvanceCore /\ UNCHANGED <<serverAside, clientVars>>

ClientTick == TickCore /\ UNCHANGED <<serverAside, clientVars>>

\* server.js:106-108 (and 98): io.emit reaches the dashboard if its socket
\* is connected.
ClientResolve ==
  \E start \in BagToSet(inflight), o \in Outcomes, adv \in 0 .. 1 :
    /\ ResolveCore(start, o, adv)
    /\ wire' = IF joined THEN wire \o emitted' ELSE wire
    /\ UNCHANGED <<serverAside, app, joined>>

\* App.tsx:60 and server.js:112-119: the dashboard's socket connects and
\* the server answers with the current state.
ClientConnect ==
  /\ ~joined
  /\ ConnectionCore
  /\ joined' = TRUE
  /\ wire' = sent'
  /\ UNCHANGED <<serverAside, app>>

\* App.tsx:66-82: the next event arrives.
ClientDeliver ==
  /\ wire # <<>>
  /\ app' = Handle(app, Head(wire))
  /\ wire' = Tail(wire)
  /\ emitted' = <<>>
  /\ sent' = <<>>
  /\ UNCHANGED <<clock, storeVars, inflight, started, completions,
                 serverAside, joined>>

\* The connection is lost; what was on its way is lost with it.  The
\* socket.io client connects again by itself (ClientConnect).
ClientDisconnect ==
  /\ joined
  /\ joined' = FALSE
  /\ wire' = <<>>
  /\ emitted' = <<>>
  /\ sent' = <<>>
  /\ UNCHANGED <<clock, storeVars, inflight, started, completions,
                 serverAside, app>>

ClientNext ==
  \/ ClientClockAdvance
  \/ ClientTick
  \/ ClientResolve
  \/ ClientConnect
  \/ ClientDeliver
  \/ ClientDisconnect

ClientSpec == Init /\ [][ClientNext]_vars

\* ------------------------------------- the dashboard, a long day
\* FeedSpec starts the dashboard against a server that has been running
\* for a while: the active day already holds up to MaxLog records (one is
\* added every CHECK_INTERVAL, server.js:20 and 125).
DayOf(n) ==
  LET logs == [i \in 1 .. n |-> MakeResult(OkOutcome, 0, 0)]
  IN [date |-> 0, logs |-> logs, summary |-> computeSummaryForResults(logs)]

FeedInit ==
  /\ clock = 0
  /\ currentDayKey = toDateString(0)
  /\ currentDayData \in {DayOf(n) : n \in 0 .. MaxLog}
  /\ pastDays = <<>>
  /\ inflight = SetToBag({0})
  /\ started = 1
  /\ emitted = <<>>
  /\ sent = <<>>
  /\ completions = <<>>
  /\ fnLog = <<>>
  /\ fnResult = <<>>
  /\ alive = TRUE
  /\ attached = {}
  /\ checkResults = <<>>
  /\ flatEmitted = <<>>
  /\ flatSent = <<>>
  /\ app = InitialApp
  /\ wire = <<>>
  /\ joined = FALSE

\* ClientResolve for a request answered at once with a 2xx response.
FeedResolve ==
  \E start \in BagToSet(inflight) :
    /\ ResolveCore(start, OkOutcome, 0)
    /\ wire' = IF joined THEN wire \o emitted' ELSE wire
    /\ UNCHANGED <<serverAside, app, joined>>

FeedNext == ClientTick \/ FeedResolve \/ ClientConnect \/ ClientDeliver

FeedSpec == FeedInit /\ [][FeedNext]_vars

\* ------------------------------------------------------------- claims
\* A step in which a checkWebsite call finishes.
Completes == Len(completions') = Len(completions) + 1

\* The record of the call that finished last.
LastResult == completions[Len(completions)].result

Consistent(bucket) == bucket.summary = computeSummaryForResults(bucket.logs)

\* C1: in every state another callback can observe, the active bucket's
\* summary is computeSummaryForResults of its logs, and so is the summary of
\* every bucket in pastDays.
C1_SummaryConsistent ==
  /\ Consistent(currentDayData)
  /\ \A i \in 1 .. Len(pastDays) : Consistent(pastDays[i])

\* A day with a record has been archived and the new day has a record too.
C1_Witness ==
  /\ Len(pastDays) >= 1
  /\ Len(pastDays[1].logs) >= 1
  /\ Len(currentDayData.logs) >= 1

\* C2: at most one checkWebsite call is suspended at its request at any
\* time; a timer tick during a pending request starts no second one.
C2_AtMostOneInFlight == BagCardinality(inflight) <= 1

\* C3: when a call finishes and the day observed differs from
\* currentDayKey, the rollover comes before the append: the former active
\* bucket, unchanged, becomes the head of pastDays with the older entries
\* behind it in their order, the key becomes the observed day, and the new
\* active bucket holds the record of this call and nothing else.
C3_RolloverBeforeAppend ==
  [][ (Completes /\ toDateString(clock') # currentDayKey) =>
        /\ pastDays' = <<currentDayData>> \o pastDays
        /\ currentDayKey' = toDateString(clock')
        /\ currentDayData'.logs = <<LastResult'>> ]_vars

\* Two rollovers have happened, the second onto a non-empty history.
C3_Witness ==
  /\ Len(pastDays) = 2
  /\ Len(pastDays[1].logs) = 1
  /\ Len(currentDayData.logs) = 1
  /\ completions[Len(completions)].rolled

\* C4: a finished call rolls over once if the observed day differs from
\* currentDayKey and not at all otherwise, whatever the gap in days; after
\* it currentDayKey is the observed day, and the new bucket is dated to it.
\* No other step touches pastDays or currentDayKey.
C4_SingleRollover ==
  [][ LET k == Len(pastDays') - Len(pastDays)
          differs == toDateString(clock') # currentDayKey
      IN /\ Completes =>
              /\ k = (IF differs THEN 1 ELSE 0)
              /\ currentDayKey' = toDateString(clock')
              /\ differs =>
                   toDateString(currentDayData'.date) = toDateString(clock')
         /\ ~Completes => (k = 0 /\ currentDayKey' = currentDayKey) ]_vars

\* A rollover over a gap of two days or more: one bucket was added.
C4_Witness ==
  /\ Len(pastDays) = 1
  /\ toDateString(currentDayData.date) - toDateString(pastDays[1].date) >= 2
  /\ Len(currentDayData.logs) >= 1

\* C5: a bucket in pastDays never changes: every step keeps the archived
\* buckets as they are, in their order, behind at most one new head; a
\* finished call appends to the active bucket alone.
C5_ArchiveFrozen ==
  [][ LET k == Len(pastDays') - Len(pastDays)
      IN /\ k \in {0, 1}
         /\ \A i \in 1 .. Len(pastDays) : pastDays'[i + k] = pastDays[i]
         /\ Completes =>
              /\ Len(currentDayData'.logs) >= 1
              /\ currentDayData'.logs[Len(currentDayData'.logs)] = LastResult'
         /\ (Completes /\ k = 0) =>
              currentDayData'.logs = Append(currentDayData.logs, LastResult')
    ]_vars

\* A call started before the rollover has finished after it: its record is
\* in the active bucket, behind the record of the call that rolled over.
C5_Witness ==
  /\ Len(pastDays) >= 1
  /\ \E i \in 2 .. Len(currentDayData.logs) :
       currentDayData.logs[i].timestamp - currentDayData.logs[i].responseTime
         < currentDayData.date

\* C6: the active bucket's logs are the records of the calls finished in
\* the active day, each once, in the order in which they finished.
C6_AppendOrder ==
  LET InDay(c) == c.day = currentDayKey
      done == SelectSeq(completions, InDay)
  IN /\ Len(currentDayData.logs) = Len(done)
     /\ \A i \in 1 .. Len(done) : currentDayData.logs[i] = done[i].result

\* Two different records were recorded in one day.
C6_Witness ==
  /\ Len(currentDayData.logs) >= 2
  /\ currentDayData.logs[1] # currentDayData.logs[2]

EventCount(events, name) ==
  Cardinality({i \in 1 .. Len(events) : events[i].event = name})

\* C7: a finished call broadcasts one newCheck with its record, then one
\* summaryUpdate with the active bucket's summary as recomputed after the
\* append, then a dailySummaryUpdate with the post-append active bucket
\* followed by pastDays.
C7_BroadcastOrder ==
  [][ Completes =>
        LET n == Len(emitted')
        IN /\ n >= 3
           /\ EventCount(emitted', "newCheck") = 1
           /\ EventCount(emitted', "summaryUpdate") = 1
           /\ emitted'[n - 2].event = "newCheck"
           /\ emitted'[n - 2].payload = LastResult'
           /\ emitted'[n - 1].event = "summaryUpdate"
           /\ emitted'[n - 1].payload = currentDayData'.summary
           /\ emitted'[n - 1].payload
                = computeSummaryForResults(currentDayData'.logs)
           /\ currentDayData'.logs[Len(currentDayData'.logs)] = LastResult'
           /\ emitted'[n].event = "dailySummaryUpdate"
           /\ emitted'[n].payload = <<currentDayData'>> \o pastDays' ]_vars

\* The broadcasts of a call that rolled over onto a non-empty history.
C7_Witness ==
  /\ Len(emitted) = 4
  /\ Len(pastDays) >= 1
  /\ Len(pastDays[1].logs) >= 1

\* C8: the currentState an observer is sent shows one point in time:
\* checkResults is the active bucket's logs, summary is the summary of
\* those logs, daySummaries is the active bucket followed by pastDays.
C8_SnapshotConsistent ==
  sent # <<>> =>
    LET p == sent[1].payload
    IN /\ sent[1].event = "currentState"
       /\ p.checkResults = currentDayData.logs
       /\ p.summary = computeSummaryForResults(p.checkResults)
       /\ p.daySummaries = <<currentDayData>> \o pastDays
       /\ p.daySummaries[1].logs = p.checkResults
       /\ p.daySummaries[1].summary = p.summary

\* An observer attached after a rollover, with a record in the new day and a
\* request pending.
C8_Witness ==
  /\ sent # <<>>
  /\ BagCardinality(inflight) >= 1
  /\ Len(pastDays) >= 1
  /\ Len(currentDayData.logs) >= 1

\* The successful records of a log, by index.
Successes(log) == {i \in 1 .. Len(log) : log[i].success}

RECURSIVE SumResponseTime(_, _)
\* The sum of responseTime over the records of log at the indices in S.
SumResponseTime(log, S) ==
  IF S = {} THEN 0
  ELSE LET i == CHOOSE j \in S : TRUE
       IN log[i].responseTime + SumResponseTime(log, S \ {i})

\* num/den in hundredths, rounded to the nearest, a tie upwards.
NearestHundredths(num, den) ==
  CHOOSE h \in 0 .. ((100 * num) \div den + 1) :
    /\ 2 * h * den <= 200 * num + den
    /\ 2 * h * den > 200 * num - den

\* C9: for a log of N records of which S succeeded the summary has
\* totalChecks N, successful S, failed N - S, and uptimePercentage
\* S/N*100 rounded to 2 decimals, 'N/A' when N = 0.
C9_SummaryCounts ==
  fnResult # <<>> =>
    LET s == fnResult[1]
        N == Len(fnLog)
        S == Cardinality(Successes(fnLog))
    IN /\ s.totalChecks = N
       /\ s.successful = S
       /\ s.failed = N - S
       /\ s.successful + s.failed = s.totalChecks
       /\ s.uptimePercentage =
            (IF N = 0 THEN "N/A" ELSE Decimal2(NearestHundredths(100 * S, N)))

\* Two of three records succeeded.
C9_Witness ==
  /\ fnResult # <<>>
  /\ Len(fnLog) = 3
  /\ fnResult[1].uptimePercentage = "66.67"

\* success 100, failure, success 300.
ExampleLog ==
  << MakeResult(OkOutcome, 0, 100),
     MakeResult(TimeoutOutcome, 0, 300),
     MakeResult(OkOutcome, 0, 300) >>

\* C10: averageResponseTime is the mean of responseTime over the successful
\* records, rounded to 2 decimals, and 'N/A' when no record succeeded, an
\* all-failed log included; the example log gives 200.00 and 66.67.
C10_AverageOverSuccesses ==
  fnResult # <<>> =>
    LET s == fnResult[1]
        S == Successes(fnLog)
    IN /\ s.averageResponseTime =
            (IF S = {} THEN "N/A"
             ELSE Decimal2(NearestHundredths(SumResponseTime(fnLog, S),
                                             Cardinality(S))))
       /\ fnLog = ExampleLog =>
            /\ s.averageResponseTime = "200.00"
            /\ s.uptimePercentage = "66.67"

\* The example log has been summarised.
C10_Witness == fnResult # <<>> /\ fnLog = ExampleLog

RECURSIVE ConcatLogs(_, _)
\* The logs of days[i], days[i - 1], ..., days[1], one after the other.
ConcatLogs(days, i) ==
  IF i = 0 THEN <<>> ELSE days[i].logs \o ConcatLogs(days, i - 1)

\* Every record the day store holds, oldest bucket first.
AllRecords ==
  LET days == <<currentDayData>> \o pastDays IN ConcatLogs(days, Len(days))

\* C11: every way the request settles gives one result record and no fault:
\* a call leaves the pending ones only by finishing with one more record
\* stored; a failure record has success false, the status of the response
\* if there was one and null otherwise, and an error message; the error
\* message is present exactly when success is false.
C11_EveryOutcomeRecorded ==
  /\ [](\A i \in 1 .. Len(completions) :
          LET r == completions[i].result
              o == completions[i].outcome
          IN /\ r.success = o.ok
             /\ r.success => r.status # Null
             /\ ~r.success => (r.status = o.status /\ r.error # Null)
             /\ (r.error # Null) <=> ~r.success)
  /\ [][ BagCardinality(inflight') < BagCardinality(inflight) =>
           /\ BagCardinality(inflight') = BagCardinality(inflight) - 1
           /\ Completes
           /\ Len(AllRecords') = Len(AllRecords) + 1 ]_vars

\* One request failed with a response and another without one.
C11_Witness ==
  \E i, j \in 1 .. Len(completions) :
    /\ completions[i].outcome = StatusOutcome
    /\ completions[i].result.status = Some(500)
    /\ completions[j].outcome = TimeoutOutcome
    /\ completions[j].result.status = Null

\* A step in which a checkWebsite call ends without finishing: by a fault.
Faults ==
  /\ BagCardinality(inflight') < BagCardinality(inflight)
  /\ ~Completes

\* C12: a fault while a completion is being recorded skips the cycle: the
\* day store is as it was before the cycle, and the process goes on to the
\* next tick.
C12_FaultSkipsCycle ==
  [][ Faults => (UNCHANGED storeVars /\ alive') ]_vars

\* The records of bucket are all stamped with day.
StampedWithin(bucket, day) ==
  \A i \in 1 .. Len(bucket.logs) :
    toDateString(bucket.logs[i].timestamp) = day

\* C14: every record is held by the bucket of its own day: the day of its
\* timestamp is currentDayKey for a record of the active bucket and the day
\* the bucket was opened on for a record of an archived one.
C14_RecordInOwnDay ==
  /\ StampedWithin(currentDayData, currentDayKey)
  /\ \A i \in 1 .. Len(pastDays) :
       StampedWithin(pastDays[i], toDateString(pastDays[i].date))

\* C15, as claimed: every event of a finished call is emitted after the
\* record step, so every dailySummaryUpdate shows an active bucket that ends
\* with the record of that call.
C15_NoEventBeforeAppend ==
  \A i \in 1 .. Len(emitted) :
    emitted[i].event = "dailySummaryUpdate" =>
      LET logs == emitted[i].payload[1].logs
      IN Len(logs) >= 1 /\ logs[Len(logs)] = LastResult

\* C15, amended: newCheck, summaryUpdate and the last dailySummaryUpdate are
\* emitted after the record step and show the state after the append; a
\* call that rolls over emits one more dailySummaryUpdate before them,
\* between the rollover and the append, which shows the new, still empty
\* active bucket followed by pastDays.  Nothing else is emitted.
C15_OnlyRolloverAnnouncedEarly ==
  emitted # <<>> =>
    LET n == Len(emitted)
        rolled == completions[Len(completions)].rolled
        logs == currentDayData.logs
    IN /\ n = (IF rolled THEN 4 ELSE 3)
       /\ Len(logs) >= 1 /\ logs[Len(logs)] = LastResult
       /\ currentDayData.summary = computeSummaryForResults(logs)
       /\ emitted[n - 2] = Emit("newCheck", LastResult)
       /\ emitted[n - 1] = Emit("summaryUpdate", currentDayData.summary)
       /\ emitted[n].event = "dailySummaryUpdate"
       /\ emitted[n].payload = <<currentDayData>> \o pastDays
       /\ rolled =>
            /\ logs = <<LastResult>>
            /\ emitted[1].event = "dailySummaryUpdate"
            /\ emitted[1].payload =
                 <<[currentDayData EXCEPT !.logs = <<>>,
                                          !.summary = EmptySummary]>>
                   \o pastDays

\* A call has rolled over onto a day with a record: its first broadcast
\* shows the empty new bucket.
C15_Witness ==
  /\ Len(emitted) = 4
  /\ emitted[1].payload[1].logs = <<>>
  /\ Len(emitted[1].payload) >= 2
  /\ Len(emitted[1].payload[2].logs) >= 1

\* C16: every call that is started finishes and has then stored one
\* record; no pending call keeps the timer from starting the next one: in
\* the end all MaxProbes calls have been started and have finished, none is
\* pending, and the day store holds one record for each.
C16_EveryProbeCompletes ==
  /\ <>[](/\ started = MaxProbes
          /\ Len(completions) = MaxProbes
          /\ inflight = EmptyBag)
  /\ [](Len(AllRecords) = Len(completions))

\* Every call has finished, the last one by the timeout.
C16_Witness ==
  /\ started = MaxProbes
  /\ Len(completions) = MaxProbes
  /\ inflight = EmptyBag
  /\ completions[Len(completions)].outcome = TimeoutOutcome

\* C17: an observer attaching or going away leaves the day store, the
\* pending calls and the clock as they are and hands no event to any other
\* observer (the currentState goes to the one that attached); and whatever
\* the observers did before, a finished call hands its whole broadcast,
\* which the day store alone determines, to every attached observer.
C17_ObserversIsolated ==
  [][ /\ attached' # attached =>
           /\ UNCHANGED <<storeVars, inflight, started, completions, clock>>
           /\ \A o \in Observers :
                Received(o, attached, attached', emitted', sent') =
                  (IF o \in attached' \ attached
                   THEN <<Emit("currentState",
                               CurrentState(currentDayData, pastDays))>>
                   ELSE <<>>)
      /\ Completes =>
           /\ attached' = attached
           /\ Len(emitted') >= 3
           /\ SubSeq(emitted', Len(emitted') - 2, Len(emitted'))
                = CheckEmits(LastResult', currentDayData', pastDays')
           /\ \A o \in attached' :
                Received(o, attached, attached', emitted', sent') = emitted'
    ]_vars

\* After a probe finished, one observer has gone away while the other is
\* attached, and a further probe has finished.
C17_Witness ==
  /\ attached = {"b"}
  /\ Len(completions) >= 2
  /\ emitted # <<>>

RECURSIVE SumTotalChecks(_, _)
\* The sum of summary.totalChecks over days[1 .. i].
SumTotalChecks(days, i) ==
  IF i = 0 THEN 0
  ELSE days[i].summary.totalChecks + SumTotalChecks(days, i - 1)

\* C18: the records of the finished calls are, each once and in the order
\* of finishing, the logs of the buckets from the oldest to the active one;
\* the totalChecks of all buckets add up to the number of finished calls.
C18_NoRecordLost ==
  /\ Len(AllRecords) = Len(completions)
  /\ \A i \in 1 .. Len(completions) : AllRecords[i] = completions[i].result
  /\ LET days == <<currentDayData>> \o pastDays
     IN SumTotalChecks(days, Len(days)) = Len(completions)

\* One call finished before a rollover and one after it.
C18_Witness ==
  /\ Len(completions) = 2
  /\ Len(pastDays) = 1
  /\ Len(pastDays[1].logs) = 1
  /\ Len(currentDayData.logs) = 1

\* C19, as claimed: every bucket in pastDays holds a record.
C19_NoEmptyArchive ==
  \A i \in 1 .. Len(pastDays) :
    /\ Len(pastDays[i].logs) >= 1
    /\ pastDays[i].summary.uptimePercentage # "N/A"

\* C19, amended: every bucket in pastDays but the oldest holds a record and
\* has a percentage; the oldest, the bucket of process start, is empty
\* exactly when no call finished on the day of the start.
C19_OnlyStartBucketMayBeEmpty ==
  /\ \A i \in 1 .. Len(pastDays) - 1 :
       /\ Len(pastDays[i].logs) >= 1
       /\ pastDays[i].summary.totalChecks >= 1
       /\ pastDays[i].summary.uptimePercentage # "N/A"
  /\ pastDays # <<>> =>
       LET oldest == pastDays[Len(pastDays)]
       IN /\ oldest.logs = <<>> <=>
               \A i \in 1 .. Len(completions) :
                 completions[i].day # toDateString(oldest.date)
          /\ oldest.logs = <<>> <=> oldest.summary.uptimePercentage = "N/A"

\* The empty bucket of the start lies behind an archived day with a record.
C19_Witness ==
  /\ Len(pastDays) = 2
  /\ pastDays[2].logs = <<>>
  /\ Len(pastDays[1].logs) = 1

\* The events of a callback's broadcasts that carry one of the names.
Named(events, names) == SelectSeq(events, LAMBDA e : e.event \in names)

\* Every finished call was seen (line 81) on one and the same day.
OneDay ==
  \A i, j \in 1 .. Len(completions) : completions[i].day = completions[j].day

\* C20: while all finished calls fall on one day, every callback of the
\* day-bucketed server broadcasts the newCheck and summaryUpdate events the
\* flat server broadcasts, with the same payloads in the same order, and a
\* currentState of either carries the same checkResults and summary.
C20_VariantsEquivalent ==
  OneDay =>
    /\ Named(emitted, {"newCheck", "summaryUpdate"}) = flatEmitted
    /\ Len(sent) = Len(flatSent)
    /\ \A k \in 1 .. Len(sent) :
         /\ sent[k].event = "currentState"
         /\ flatSent[k].event = "currentState"
         /\ sent[k].payload.checkResults = flatSent[k].payload.checkResults
         /\ sent[k].payload.summary = flatSent[k].payload.summary

\* A current state sent by both servers after two answers of one day, one
\* of them a failure.
C20_Witness ==
  /\ Len(completions) = 2
  /\ OneDay
  /\ completions[1].result.success # completions[2].result.success
  /\ sent # <<>>
  /\ flatSent # <<>>

\* C21: a dashboard whose socket is connected and to which everything
\* handed over since, the current state first, has arrived shows the
\* server's state: its summary is the active day's, its dailySummaries are
\* the active day followed by pastDays, and the first of them carries the
\* summary shown.
C21_ClientConverges ==
  (joined /\ wire = <<>>) =>
    /\ app.summary = currentDayData.summary
    /\ app.dailySummaries = DayList(currentDayData, pastDays)
    /\ app.dailySummaries[1].summary = app.summary

\* The dashboard got the current state with one record, then the events of
\* a second call, which rolled the day over; all of them have arrived.
C21_Witness ==
  /\ joined
  /\ wire = <<>>
  /\ Len(completions) = 2
  /\ completions[2].rolled
  /\ Len(app.checkResults) = 2
  /\ app.checkResults[1] = LastResult
  /\ app.checkResults[2] = completions[1].result

\* C22: the dashboard's checkResults never holds more than SliceLimit
\* entries.
C22_AtMostHundred == Len(app.checkResults) <= SliceLimit

====
